---- MODULE Spec2Model ----
(***************************************************************************)
(* Model of ext/node/ops/os.rs: the three permission-gated ops             *)
(* (op_node_os_get_priority, op_node_os_set_priority, op_node_os_username) *)
(* and the two cfg-selected `priority` modules (unix, windows).            *)
(*                                                                         *)
(* Each op is one atomic action.  The OS-level steps the call performs are *)
(* recorded, in program order, in last.calls; the operating system itself  *)
(* (process table, thread-local error indicator) is the environment.       *)
(***************************************************************************)
EXTENDS Integers, Sequences, FiniteSets, TLC

\* platform: the priority module compiled in ("unix" or "windows")
\* prio:     native priority of the calling process (nice value or class)
\* errno:    thread-local error indicator (errno / GetLastError)
\* last:     the most recent event: a call (its inputs, its result, the
\*           OS-level steps it performed in program order, the priority of
\*           the calling process before it, and how it relates to the event
\*           before it) or a change of priority made by another program
VARIABLES platform, prio, errno, last

vars == <<platform, prio, errno, last>>

\* ------------------------------------------------------------------ bounds
\* priorities offered to set_priority range over -20-Slack .. 19+Slack
Slack == 1
\* pids offered to the ops range over 0 .. MaxPid
MaxPid == 2

Pids == 0..MaxPid
\* pid 0 is the calling process, pid 1 another live process (its priority
\* belongs to the environment); no other pid names a process
ExistingPids == {0, 1}
PriorityInputs == ((-20 - Slack)..(19 + Slack)) \cup {-25, 25}
\* non-zero values of the thread-local error indicator (errno / GetLastError)
ErrorCodes == {3, 13}
UserNames == {"deno", "root"}

\* ------------------------------------------------------- program constants
PRIORITY_LOW == 19
PRIORITY_BELOW_NORMAL == 10
PRIORITY_NORMAL == 0
PRIORITY_ABOVE_NORMAL == -7
PRIORITY_HIGH == -14
PRIORITY_HIGHEST == -20

\* winapi::um::winbase values
NORMAL_PRIORITY_CLASS == 32
IDLE_PRIORITY_CLASS == 64
HIGH_PRIORITY_CLASS == 128
REALTIME_PRIORITY_CLASS == 256
BELOW_NORMAL_PRIORITY_CLASS == 16384
ABOVE_NORMAL_PRIORITY_CLASS == 32768

SixClasses == {REALTIME_PRIORITY_CLASS, HIGH_PRIORITY_CLASS,
               ABOVE_NORMAL_PRIORITY_CLASS, NORMAL_PRIORITY_CLASS,
               BELOW_NORMAL_PRIORITY_CLASS, IDLE_PRIORITY_CLASS}
\* class values GetPriorityClass might report that are none of the six
UnknownClasses == {1}
NiceValues == (-20)..19

\* ----------------------------------------------------------------- results
Ok(v) == [kind |-> "Ok", val |-> v]
PermissionDenied == [kind |-> "PermissionDenied", val |-> 0]
InvalidArgument == [kind |-> "InvalidArgument", val |-> 0]
OsError(code) == [kind |-> "OsError", val |-> code]

\* choices the environment makes during one call
NativeValues ==
  IF platform = "unix" THEN NiceValues ELSE SixClasses \cup UnknownClasses

\* native priorities the other live process is observed with
OtherValues ==
  IF platform = "unix" THEN {-20, -1, 0, 19} ELSE SixClasses \cup UnknownClasses

\* the code a failing OS call leaves in the error indicator: "no such
\* process" for a pid that names none, "access denied" otherwise
FailureCode(pid) == IF pid \notin ExistingPids THEN 3 ELSE 13

\* choices the environment makes during one call: whether OpenProcess is
\* refused (windows only), whether the query/set call fails, the native
\* priority of the other process
Env ==
  [openFails : IF platform = "unix" THEN {FALSE} ELSE BOOLEAN,
   opFails : BOOLEAN, other : OtherValues]
\* a call that is denied never consults the environment
EnvFor(granted) ==
  IF granted THEN Env
  ELSE {[openFails |-> FALSE, opFails |-> FALSE, other |-> 0]}
\* set_priority never reads a priority
EnvSet(granted) == {[e EXCEPT !.other = 0] : e \in EnvFor(granted)}

\* what a call that did nothing at OS level leaves behind
Untouched == [calls |-> <<>>, args |-> <<>>, raw |-> <<>>, handle |-> "none",
              name |-> "", errno |-> errno, prio |-> prio]

\* =================================================================== unix
\* libc::getpriority: the nice value of a live process, errno left alone;
\* -1 with errno set for a pid that names no process
getpriority(pid, e, env) ==
  IF pid = 0 THEN [raw |-> prio, errno |-> e]
  ELSE IF pid \in ExistingPids THEN [raw |-> env.other, errno |-> e]
  ELSE [raw |-> -1, errno |-> FailureCode(pid)]

\* the match of get_priority on (raw result, errno after the call)
get_priority_match(raw, e) ==
  IF raw = -1 /\ e = 0 THEN Ok(PRIORITY_HIGH)
  ELSE IF raw = -1 THEN OsError(e)
  ELSE Ok(raw)

get_priority_unix_stale(pid, env) ==
  LET sys == getpriority(pid, errno, env)
  IN [Untouched EXCEPT !.calls = <<"getpriority">>,
                       !.raw = <<sys.raw, sys.errno>>,
                       !.errno = sys.errno]
       @@ [result |-> get_priority_match(sys.raw, sys.errno)]

get_priority_unix(pid, env) ==
  LET cleared == 0
      sys == getpriority(pid, cleared, env)
  IN [Untouched EXCEPT !.calls = <<"set_errno", "getpriority">>,
                       !.raw = <<sys.raw, sys.errno>>,
                       !.errno = sys.errno]
       @@ [result |-> get_priority_match(sys.raw, sys.errno)]

Clamp(v) == IF v < -20 THEN -20 ELSE IF v > 19 THEN 19 ELSE v

\* libc::setpriority: -1 with errno set on failure, else 0 and the nice
\* value of the process becomes the requested one (the kernel clamps it)
setpriority(pid, v, env) ==
  IF pid \notin ExistingPids \/ env.opFails
    THEN [ret |-> -1, errno |-> FailureCode(pid), prio |-> prio]
    ELSE [ret |-> 0, errno |-> errno,
          prio |-> IF pid = 0 THEN Clamp(v) ELSE prio]

set_priority_unix_validating(pid, priority, env) ==
  IF priority < PRIORITY_HIGHEST \/ priority > PRIORITY_LOW
    THEN Untouched @@ [result |-> InvalidArgument]
    ELSE LET sys == setpriority(pid, priority, env)
         IN [Untouched EXCEPT !.calls = <<"setpriority">>,
                              !.args = <<priority>>,
                              !.raw = <<sys.ret>>,
                              !.errno = sys.errno,
                              !.prio = sys.prio]
              @@ [result |-> IF sys.ret = -1 THEN OsError(sys.errno) ELSE Ok(0)]

set_priority_unix(pid, priority, env) ==
  LET sys == setpriority(pid, priority, env)
  IN [Untouched EXCEPT !.calls = <<"setpriority">>,
                       !.args = <<priority>>,
                       !.raw = <<sys.ret>>,
                       !.errno = sys.errno,
                       !.prio = sys.prio]
       @@ [result |-> IF sys.ret = -1 THEN OsError(sys.errno) ELSE Ok(0)]

\* ================================================================ windows
\* GetCurrentProcess for the pid 0 sentinel, else OpenProcess, which yields
\* NULL when the pid names no process or access is refused
acquire_handle(pid, env) ==
  IF pid = 0
    THEN [call |-> "GetCurrentProcess", handle |-> "current"]
    ELSE [call |-> "OpenProcess",
          handle |-> IF pid \notin ExistingPids \/ env.openFails
                       THEN "NULL" ELSE "opened"]

\* GetPriorityClass: the class of the process, 0 on failure (the pseudo
\* handle of the calling process can always be queried)
GetPriorityClass(pid, handle, env) ==
  IF handle = "opened" /\ env.opFails THEN 0
  ELSE IF pid = 0 THEN prio ELSE env.other

\* the match of get_priority on the value GetPriorityClass returned
unified_of_unknown_as_normal(cls, code) ==
  IF cls = 0 THEN OsError(code)
  ELSE IF cls = REALTIME_PRIORITY_CLASS THEN Ok(PRIORITY_HIGHEST)
  ELSE IF cls = HIGH_PRIORITY_CLASS THEN Ok(PRIORITY_HIGH)
  ELSE IF cls = ABOVE_NORMAL_PRIORITY_CLASS THEN Ok(PRIORITY_ABOVE_NORMAL)
  ELSE IF cls = NORMAL_PRIORITY_CLASS THEN Ok(PRIORITY_NORMAL)
  ELSE IF cls = BELOW_NORMAL_PRIORITY_CLASS THEN Ok(PRIORITY_BELOW_NORMAL)
  ELSE IF cls = IDLE_PRIORITY_CLASS THEN Ok(PRIORITY_LOW)
  ELSE Ok(PRIORITY_NORMAL)

unified_of_below_as_low(cls, code) ==
  IF cls = 0 THEN OsError(code)
  ELSE IF cls = REALTIME_PRIORITY_CLASS THEN Ok(PRIORITY_HIGHEST)
  ELSE IF cls = HIGH_PRIORITY_CLASS THEN Ok(PRIORITY_HIGH)
  ELSE IF cls = ABOVE_NORMAL_PRIORITY_CLASS THEN Ok(PRIORITY_ABOVE_NORMAL)
  ELSE IF cls = NORMAL_PRIORITY_CLASS THEN Ok(PRIORITY_NORMAL)
  ELSE IF cls = BELOW_NORMAL_PRIORITY_CLASS THEN Ok(PRIORITY_LOW)
  ELSE IF cls = IDLE_PRIORITY_CLASS THEN Ok(PRIORITY_LOW)
  ELSE Ok(PRIORITY_LOW)

unified_of(cls, code) ==
  IF cls = 0 THEN OsError(code)
  ELSE IF cls = REALTIME_PRIORITY_CLASS THEN Ok(PRIORITY_HIGHEST)
  ELSE IF cls = HIGH_PRIORITY_CLASS THEN Ok(PRIORITY_HIGH)
  ELSE IF cls = ABOVE_NORMAL_PRIORITY_CLASS THEN Ok(PRIORITY_ABOVE_NORMAL)
  ELSE IF cls = NORMAL_PRIORITY_CLASS THEN Ok(PRIORITY_NORMAL)
  ELSE IF cls = BELOW_NORMAL_PRIORITY_CLASS THEN Ok(PRIORITY_BELOW_NORMAL)
  ELSE IF cls = IDLE_PRIORITY_CLASS THEN Ok(PRIORITY_LOW)
  ELSE Ok(PRIORITY_LOW)

get_priority_windows(pid, env) ==
  LET acq == acquire_handle(pid, env)
  IN IF acq.handle = "NULL"
       THEN [Untouched EXCEPT !.calls = <<acq.call>>,
                              !.handle = "NULL",
                              !.errno = FailureCode(pid)]
              @@ [result |-> OsError(FailureCode(pid))]
       ELSE LET cls == GetPriorityClass(pid, acq.handle, env)
            IN [Untouched EXCEPT
                  !.calls = <<acq.call, "GetPriorityClass", "CloseHandle">>,
                  !.raw = <<cls>>,
                  !.handle = acq.handle,
                  !.errno = IF cls = 0 THEN FailureCode(pid) ELSE errno]
                 @@ [result |-> unified_of(cls, FailureCode(pid))]

class_of_low_inclusive(priority) ==
  IF priority < PRIORITY_HIGHEST \/ priority > PRIORITY_LOW THEN 0
  ELSE IF priority < PRIORITY_HIGH THEN REALTIME_PRIORITY_CLASS
  ELSE IF priority < PRIORITY_ABOVE_NORMAL THEN HIGH_PRIORITY_CLASS
  ELSE IF priority < PRIORITY_NORMAL THEN ABOVE_NORMAL_PRIORITY_CLASS
  ELSE IF priority < PRIORITY_BELOW_NORMAL THEN NORMAL_PRIORITY_CLASS
  ELSE IF priority <= PRIORITY_LOW THEN BELOW_NORMAL_PRIORITY_CLASS
  ELSE IDLE_PRIORITY_CLASS

class_of_normal_inclusive(priority) ==
  IF priority < PRIORITY_HIGHEST \/ priority > PRIORITY_LOW THEN 0
  ELSE IF priority < PRIORITY_HIGH THEN REALTIME_PRIORITY_CLASS
  ELSE IF priority < PRIORITY_ABOVE_NORMAL THEN HIGH_PRIORITY_CLASS
  ELSE IF priority <= PRIORITY_NORMAL THEN ABOVE_NORMAL_PRIORITY_CLASS
  ELSE IF priority < PRIORITY_BELOW_NORMAL THEN NORMAL_PRIORITY_CLASS
  ELSE IF priority < PRIORITY_LOW THEN BELOW_NORMAL_PRIORITY_CLASS
  ELSE IDLE_PRIORITY_CLASS

class_of_high_inclusive(priority) ==
  IF priority < PRIORITY_HIGHEST \/ priority > PRIORITY_LOW THEN 0
  ELSE IF priority <= PRIORITY_HIGH THEN REALTIME_PRIORITY_CLASS
  ELSE IF priority < PRIORITY_ABOVE_NORMAL THEN HIGH_PRIORITY_CLASS
  ELSE IF priority < PRIORITY_NORMAL THEN ABOVE_NORMAL_PRIORITY_CLASS
  ELSE IF priority < PRIORITY_BELOW_NORMAL THEN NORMAL_PRIORITY_CLASS
  ELSE IF priority < PRIORITY_LOW THEN BELOW_NORMAL_PRIORITY_CLASS
  ELSE IDLE_PRIORITY_CLASS

\* the if-chain of set_priority that picks the class; the first branch is
\* the early return, rendered here as class 0
class_of(priority) ==
  IF priority < PRIORITY_HIGHEST \/ priority > PRIORITY_LOW THEN 0
  ELSE IF priority < PRIORITY_HIGH THEN REALTIME_PRIORITY_CLASS
  ELSE IF priority < PRIORITY_ABOVE_NORMAL THEN HIGH_PRIORITY_CLASS
  ELSE IF priority < PRIORITY_NORMAL THEN ABOVE_NORMAL_PRIORITY_CLASS
  ELSE IF priority < PRIORITY_BELOW_NORMAL THEN NORMAL_PRIORITY_CLASS
  ELSE IF priority < PRIORITY_LOW THEN BELOW_NORMAL_PRIORITY_CLASS
  ELSE IDLE_PRIORITY_CLASS

\* SetPriorityClass: FALSE on failure, else the process takes the class
SetPriorityClass(pid, cls, env) ==
  IF env.opFails
    THEN [ret |-> FALSE, errno |-> FailureCode(pid), prio |-> prio]
    ELSE [ret |-> TRUE, errno |-> errno,
          prio |-> IF pid = 0 THEN cls ELSE prio]

set_priority_windows(pid, priority, env) ==
  LET acq == acquire_handle(pid, env)
  IN IF acq.handle = "NULL"
       THEN [Untouched EXCEPT !.calls = <<acq.call>>,
                              !.handle = "NULL",
                              !.errno = FailureCode(pid)]
              @@ [result |-> OsError(FailureCode(pid))]
       ELSE IF class_of(priority) = 0
         THEN [Untouched EXCEPT !.calls = <<acq.call>>,
                                !.handle = acq.handle]
                @@ [result |-> InvalidArgument]
         ELSE LET sys == SetPriorityClass(pid, class_of(priority), env)
              IN [Untouched EXCEPT
                    !.calls = <<acq.call, "SetPriorityClass", "CloseHandle">>,
                    !.args = <<class_of(priority)>>,
                    !.handle = acq.handle,
                    !.errno = sys.errno,
                    !.prio = sys.prio]
                   @@ [result |-> IF sys.ret = FALSE THEN OsError(sys.errno)
                                                     ELSE Ok(0)]

\* ==================================================================== ops
\* the priority module compiled in: cfg(unix) or cfg(windows)
get_priority(pid, env) ==
  IF platform = "unix" THEN get_priority_unix(pid, env)
                       ELSE get_priority_windows(pid, env)

set_priority(pid, priority, env) ==
  IF platform = "unix" THEN set_priority_unix(pid, priority, env)
                       ELSE set_priority_windows(pid, priority, env)

\* check_sys has run (first OS-visible step of every op)
Checked(out) == [out EXCEPT !.calls = <<"check_sys">> \o @]

Denied == Untouched @@ [result |-> PermissionDenied]

op_node_os_get_priority_late_check(granted, pid, env) ==
  LET out == get_priority(pid, env)
  IN IF granted THEN [out EXCEPT !.calls = @ \o <<"check_sys">>]
     ELSE [out EXCEPT !.calls = @ \o <<"check_sys">>,
                      !.result = PermissionDenied]

op_node_os_get_priority(granted, pid, env) ==
  IF ~granted THEN Checked(Denied)
  ELSE Checked(get_priority(pid, env))

op_node_os_set_priority(granted, pid, priority, env) ==
  IF ~granted THEN Checked(Denied)
  ELSE Checked(set_priority(pid, priority, env))

op_node_os_username(granted, user) ==
  IF ~granted THEN Checked(Denied)
  ELSE Checked([Untouched EXCEPT !.calls = <<"username">>, !.name = user])
         @@ [result |-> Ok(0)]

\* ================================================================= machine
Normal == IF platform = "unix" THEN 0 ELSE NORMAL_PRIORITY_CLASS

\* an event that is not a call of one of the three ops
NoCall(what) ==
  [op |-> what, pid |-> 0, priority |-> 0, granted |-> TRUE,
   result |-> Ok(0), calls |-> <<>>, args |-> <<>>, raw |-> <<>>,
   handle |-> "none", name |-> "", before |-> 0, after |-> ""]

\* how a call relates to the event before it: "set00" when that event was a
\* successful set_priority(0, 0); "get0" when this call is a set_priority
\* whose priority is the result of a get_priority(0) that was that event
After(op, priority) ==
  IF /\ last.op = "set_priority" /\ last.pid = 0 /\ last.priority = 0
     /\ last.result = Ok(0)
    THEN "set00"
  ELSE IF /\ last.op = "get_priority" /\ last.pid = 0
          /\ last.result = Ok(priority) /\ op = "set_priority"
    THEN "get0"
  ELSE ""

Init ==
  /\ platform \in {"unix", "windows"}
  /\ prio = Normal
  /\ errno = 0
  /\ last = NoCall("none")

Return(op, pid, priority, granted, out) ==
  /\ last' = [op |-> op, pid |-> pid, priority |-> priority,
              granted |-> granted, result |-> out.result,
              calls |-> out.calls, args |-> out.args, raw |-> out.raw,
              handle |-> out.handle, name |-> out.name,
              before |-> prio, after |-> After(op, priority)]
  /\ errno' = out.errno
  /\ prio' = out.prio
  /\ UNCHANGED platform

GetPriority ==
  \E pid \in Pids, granted \in BOOLEAN : \E env \in EnvFor(granted) :
    Return("get_priority", pid, 0, granted,
           op_node_os_get_priority(granted, pid, env))

SetPriority ==
  \E pid \in Pids, priority \in PriorityInputs, granted \in BOOLEAN :
   \E env \in EnvSet(granted) :
    Return("set_priority", pid, priority, granted,
           op_node_os_set_priority(granted, pid, priority, env))

Username ==
  \E granted \in BOOLEAN, user \in UserNames :
    Return("username", 0, 0, granted, op_node_os_username(granted, user))

\* another program changes the priority of the calling process
ExternalChange ==
  /\ \E v \in NativeValues : prio' = v
  /\ last' = NoCall("external")
  /\ UNCHANGED <<platform, errno>>

Next == GetPriority \/ SetPriority \/ Username \/ ExternalChange

Spec == Init /\ [][Next]_vars

TypeOK ==
  /\ platform \in {"unix", "windows"}
  /\ prio \in NativeValues
  /\ errno \in {0} \cup ErrorCodes
  /\ last.op \in {"none", "external", "get_priority", "set_priority",
                  "username"}
  /\ last.result.kind \in {"Ok", "PermissionDenied", "InvalidArgument", "OsError"}

\* ================================================================== claims
Granted(op) == last.op = op /\ last.granted
Valid(v) == -20 <= v /\ v <= 19
OsCalls == Tail(last.calls)

\* C1: in every call the permission check is the first step and happens
\* once; when it reports denial the call returns PermissionDenied and has
\* performed no OS-level step at all (no syscall, no handle, no lookup).
C1_PermissionCheckFirst ==
  last.op \in {"get_priority", "set_priority", "username"} =>
    /\ Len(last.calls) >= 1
    /\ last.calls[1] = "check_sys"
    /\ \A i \in 2..Len(last.calls) : last.calls[i] # "check_sys"
    /\ ~last.granted =>
         /\ last.result = PermissionDenied
         /\ OsCalls = <<>>
         /\ last.handle = "none"
         /\ last.args = <<>>
         /\ last.name = ""
         /\ prio = last.before

C1_Witness ==
  /\ last.op = "get_priority" /\ ~last.granted
  /\ last.result = PermissionDenied

\* C2 (as claimed): on Windows, set_priority with a priority outside
\* [-20, 19] fails with InvalidArgument having made no OS call and acquired
\* no handle.
C2_InvalidBeforeHandle ==
  (platform = "windows" /\ Granted("set_priority") /\ ~Valid(last.priority)) =>
    /\ last.result = InvalidArgument
    /\ OsCalls = <<>>
    /\ last.handle = "none"

\* C3 (as claimed): on Windows, a get_priority or set_priority call that
\* obtained a handle has released it (CloseHandle is its final step) when it
\* returns, whatever the result.
C3_HandleReleased ==
  (/\ platform = "windows"
   /\ last.op \in {"get_priority", "set_priority"}
   /\ last.handle \in {"current", "opened"}) =>
    /\ Len(OsCalls) >= 2
    /\ OsCalls[Len(OsCalls)] = "CloseHandle"

\* C4: on Unix, get_priority clears errno immediately before getpriority
\* and decides on (raw, errno after the call): (-1, 0) gives Ok(-14),
\* (-1, non-zero) gives the OS error, any other raw is returned unchanged;
\* for a live process the result is never an error, whatever errno held
\* before the call.
C4_UnixGetDecision ==
  (platform = "unix" /\ Granted("get_priority")) =>
    /\ OsCalls = <<"set_errno", "getpriority">>
    /\ Len(last.raw) = 2
    /\ LET raw == last.raw[1]
           e == last.raw[2]
       IN /\ (raw = -1 /\ e = 0) => last.result = Ok(-14)
          /\ (raw = -1 /\ e # 0) => last.result = OsError(e)
          /\ raw # -1 => last.result = Ok(raw)
          /\ last.pid = 0 => raw = prio
          /\ last.pid \in ExistingPids => e = 0 /\ last.result.kind = "Ok"

C4_Witness ==
  /\ platform = "unix" /\ Granted("get_priority") /\ last.pid = 0
  /\ last.raw = <<-1, 0>> /\ last.result = Ok(-14)

\* C5: on Windows, get_priority with a valid handle maps the value of
\* GetPriorityClass totally: 0 is the OS error, the six classes map to
\* -20, -14, -7, 0, 10, 19 and every other value maps to 19; get_priority(0)
\* returns 0 when the calling process is in the normal class.
C5_WindowsGetMapping ==
  (/\ platform = "windows" /\ Granted("get_priority")
   /\ last.handle # "NULL") =>
    /\ Len(last.raw) = 1
    /\ LET cls == last.raw[1]
       IN /\ cls = 0 => last.result.kind = "OsError"
          /\ cls = REALTIME_PRIORITY_CLASS => last.result = Ok(-20)
          /\ cls = HIGH_PRIORITY_CLASS => last.result = Ok(-14)
          /\ cls = ABOVE_NORMAL_PRIORITY_CLASS => last.result = Ok(-7)
          /\ cls = NORMAL_PRIORITY_CLASS => last.result = Ok(0)
          /\ cls = BELOW_NORMAL_PRIORITY_CLASS => last.result = Ok(10)
          /\ cls = IDLE_PRIORITY_CLASS => last.result = Ok(19)
          /\ cls \notin SixClasses \cup {0} => last.result = Ok(19)
          /\ last.pid = 0 => cls = prio
    /\ last.result.kind = "Ok" => last.result.val \in {-20, -14, -7, 0, 10, 19}

C5_Witness ==
  /\ platform = "windows" /\ Granted("get_priority")
  /\ last.raw = <<1>> /\ last.result = Ok(19)

\* the bands as the claims state them: the classes whose band holds v
BandsOf(v) ==
  {c \in SixClasses :
     \/ c = REALTIME_PRIORITY_CLASS /\ v < -14
     \/ c = HIGH_PRIORITY_CLASS /\ -14 <= v /\ v < -7
     \/ c = ABOVE_NORMAL_PRIORITY_CLASS /\ -7 <= v /\ v < 0
     \/ c = NORMAL_PRIORITY_CLASS /\ 0 <= v /\ v < 10
     \/ c = BELOW_NORMAL_PRIORITY_CLASS /\ 10 <= v /\ v < 19
     \/ c = IDLE_PRIORITY_CLASS /\ v = 19}

\* C6: on Windows, set_priority with a priority in [-20, 19] and a valid
\* handle passes to SetPriorityClass the class of the one band that holds
\* the priority.
C6_WindowsSetBands ==
  (/\ platform = "windows" /\ Granted("set_priority")
   /\ Valid(last.priority) /\ last.handle # "NULL") =>
    /\ Cardinality(BandsOf(last.priority)) = 1
    /\ OsCalls[2] = "SetPriorityClass"
    /\ Len(last.args) = 1
    /\ last.args[1] \in BandsOf(last.priority)

C6_Witness ==
  /\ platform = "windows" /\ Granted("set_priority")
  /\ last.priority = 19 /\ last.args = <<IDLE_PRIORITY_CLASS>>
  /\ last.result = Ok(0)

\* the value get_priority reports for the class set_priority picks for v
RoundTrip(v) == unified_of(class_of(v), 0).val

\* C7: on Windows, the unified value read back for the class that
\* set_priority passed to SetPriorityClass lies in the same band as the
\* priority requested, and a second round trip changes nothing.
C7_RoundTripSameBand ==
  (/\ platform = "windows" /\ Granted("set_priority")
   /\ Valid(last.priority) /\ last.handle # "NULL") =>
    LET back == unified_of(last.args[1], 0)
    IN /\ back.kind = "Ok"
       /\ BandsOf(back.val) = BandsOf(last.priority)
       /\ RoundTrip(last.priority) = back.val
       /\ RoundTrip(back.val) = back.val
       /\ (10 <= last.priority /\ last.priority < 19) => back.val = 10

C7_Witness ==
  /\ platform = "windows" /\ Granted("set_priority")
  /\ last.priority = 15 /\ last.args = <<BELOW_NORMAL_PRIORITY_CLASS>>
  /\ last.result = Ok(0)

\* C8: a get_priority(0) that directly follows a successful
\* set_priority(0, 0) returns 0, on both platforms.
C8_SetZeroThenGet ==
  (Granted("get_priority") /\ last.pid = 0 /\ last.after = "set00") =>
    last.result = Ok(0)

C8_Witness ==
  /\ Granted("get_priority") /\ last.pid = 0 /\ last.after = "set00"
  /\ platform = "windows" /\ last.result = Ok(0)

C8_WitnessUnix ==
  /\ Granted("get_priority") /\ last.pid = 0 /\ last.after = "set00"
  /\ platform = "unix" /\ last.result = Ok(0)

\* C9: on Unix, set_priority hands the priority to setpriority unchanged
\* whatever its value, and returns the OS error exactly when the syscall
\* returned -1; InvalidArgument comes only from a Windows set_priority with
\* a priority outside [-20, 19].
C9_UnixSetPassThrough ==
  /\ (platform = "unix" /\ Granted("set_priority")) =>
       /\ OsCalls = <<"setpriority">>
       /\ last.args = <<last.priority>>
       /\ Len(last.raw) = 1
       /\ last.raw[1] = -1 <=> last.result.kind = "OsError"
       /\ last.raw[1] # -1 <=> last.result = Ok(0)
  /\ last.result.kind = "InvalidArgument" =>
       /\ platform = "windows"
       /\ Granted("set_priority")
       /\ ~Valid(last.priority)

C9_Witness ==
  /\ platform = "unix" /\ Granted("set_priority")
  /\ last.priority = 25 /\ last.args = <<25>> /\ last.result = Ok(0)

\* C10: on Windows, each of the six classes is a fixed point of reading
\* then writing: a successful set_priority(0, r) that directly follows the
\* get_priority(0) that returned r leaves the calling process in the class
\* it had, when that class is one of the six.
C10_GetThenSetKeepsClass ==
  (/\ platform = "windows" /\ Granted("set_priority") /\ last.pid = 0
   /\ last.after = "get0" /\ last.result = Ok(0)
   /\ last.before \in SixClasses) =>
    /\ last.args = <<last.before>>
    /\ prio = last.before

C10_Witness ==
  /\ platform = "windows" /\ Granted("set_priority") /\ last.pid = 0
  /\ last.after = "get0" /\ last.result = Ok(0)
  /\ last.before = IDLE_PRIORITY_CLASS /\ prio = IDLE_PRIORITY_CLASS

====
